---- MODULE Spec2Model ----
(***************************************************************************)
(* Request / retry / error-classification layer of PostmanClient           *)
(* (src/scripts/postman_client.py, src/scripts/config.py).                 *)
(*                                                                         *)
(* One client instance issues logical calls (_make_request).  Each logical *)
(* call runs execute_curl under the retry handler, one attempt per step,   *)
(* then detects the API version, checks the status and returns or raises.  *)
(* The facade methods on environments and the two duplicate methods issue  *)
(* their requests through _make_request against one server.                *)
(* utils/retry_handler.py and utils/exceptions.py are not part of the      *)
(* sources at hand; their behaviour is taken from spec.md sections 4.1,    *)
(* 4.2, 6 and 7.                                                           *)
(***************************************************************************)
EXTENDS Integers, Sequences, FiniteSets, TLC

\* ------------------------------------------------------------------ bounds
\* largest value of POSTMAN_MAX_RETRIES explored
MaxRetriesBound == 3
\* largest value of POSTMAN_MAX_RETRIES explored with the facade methods
FacadeMaxRetries == 1

\* ------------------------------------------------------- program constants
\* config.py: default of POSTMAN_TIMEOUT, seconds
DefaultTimeout == 30
\* postman_client.py: buffer added to the subprocess timeout, seconds
SubprocessBuffer == 5
\* config.py: default of POSTMAN_RATE_LIMIT_DELAY, seconds
DefaultRateLimitDelay == 60

\* ------------------------------------------------------------- error kinds
RetryableKinds == {"Network", "Timeout", "RateLimit", "Server"}

NonRetryableKinds ==
    {"Authentication", "Permission", "ResourceNotFound", "Validation", "Unknown"}

ErrorKinds == RetryableKinds \cup NonRetryableKinds

\* ------------------------------------------------------ what the wire does
\* status codes a response may carry
Statuses ==
    {200, 302, 400, 401, 402, 403, 404, 418, 422, 429, 500, 502, 503, 599, 600}

\* value of the X-API-Version response header ("" when the header is absent)
VersionHeaders == {"", "v10.2", "v9"}

\* response bodies: empty, a JSON object with a meta key, a JSON object with a
\* message field, a JSON object holding a collection with and without a fork
\* field, and text that is not JSON
Bodies ==
    {"", "{meta}", "{message}", "{collection:{fork}}", "{collection:{info}}",
     "<html>"}

NoProc == [ev |-> "none", overrun |-> 0, out |-> "none",
           status |-> 0, header |-> "", body |-> ""]

\* One run of the curl subprocess, as the environment decides it:
\*   refused  - the connection fails, curl exits non-zero at once
\*   slow     - the server does not answer within --max-time; curl gives up at
\*              the deadline (overrun 0) or fails to exit until after the
\*              subprocess timeout (overrun > SubprocessBuffer)
\*   answered - curl exits 0 and prints out: nothing, text without a blank
\*              line, a head whose status line has no number, or a response
CurlRuns ==
    {[NoProc EXCEPT !.ev = "refused"]}
    \cup {[NoProc EXCEPT !.ev = "slow", !.overrun = o] :
             o \in {0, SubprocessBuffer + 1}}
    \cup {[NoProc EXCEPT !.ev = "answered", !.out = o] :
             o \in {"empty", "nosep", "badstatus"}}
    \cup {[NoProc EXCEPT !.ev = "answered", !.out = "response",
                         !.status = s, !.header = h, !.body = b] :
             s \in Statuses, h \in VersionHeaders, b \in Bodies}

\* seconds the curl process runs: --max-time ends it at the timeout
ProcessRuntime(proc, timeout) ==
    CASE proc.ev = "refused" -> 0
      [] proc.ev = "slow" -> timeout + proc.overrun
      [] OTHER -> 0

\* curl's exit status: 0 only when a response was received
ReturnCode(proc) ==
    CASE proc.ev = "refused" -> 7
      [] proc.ev = "slow" -> 28
      [] OTHER -> 0

\* ------------------------------------------------ outcomes of one attempt
NoOutcome == [t |-> "none", kind |-> "", msg |-> <<"", "">>,
              status |-> 0, header |-> "", body |-> "", ev |-> "none"]

Raised(kind, msg, proc) ==
    [NoOutcome EXCEPT !.t = "raise", !.kind = kind, !.msg = msg, !.ev = proc.ev]

MockResponse(status_code, headers, body, proc) ==
    [NoOutcome EXCEPT !.t = "resp", !.status = status_code,
                      !.header = headers, !.body = body, !.ev = proc.ev]

\* execute_curl: one HTTP attempt
execute_curl(proc, timeout) ==
    IF ProcessRuntime(proc, timeout) > timeout + SubprocessBuffer
    THEN Raised("Timeout", <<"Request timed out", "timeout_seconds">>, proc)
    ELSE IF ReturnCode(proc) # 0
    THEN Raised("Network", <<"Curl failed", "Curl command failed">>, proc)
    ELSE IF proc.out = "empty"
    THEN Raised("Network", <<"Empty response from curl", "">>, proc)
    ELSE IF proc.out = "nosep"
    THEN Raised("Network", <<"Invalid response format from curl", "">>, proc)
    ELSE IF proc.out = "badstatus"
    THEN Raised("Network", <<"Request failed", "ValueError">>, proc)
    ELSE MockResponse(proc.status, proc.header, proc.body, proc)

\* ------------------------------------------------------------ construction
\* values of POSTMAN_API_KEY, as their characters: not set (or empty), a key
\* of the right form, and keys in lower case, without the dash, and with the
\* prefix not at the start
ApiKeys ==
    { <<>>,
      <<"P", "M", "A", "K", "-", "7">>,
      <<"p", "m", "a", "k", "-", "7">>,
      <<"P", "M", "A", "K">>,
      <<"7", "P", "M", "A", "K", "-">> }

\* str.startswith
StartsWith(text, prefix) ==
    /\ Len(text) >= Len(prefix)
    /\ SubSeq(text, 1, Len(prefix)) = prefix

\* PostmanConfig.__init__: POSTMAN_API_KEY and POSTMAN_MAX_RETRIES as given,
\* the other variables of the environment not set
PostmanConfig(api_key, max_retries) ==
    [api_key |-> api_key, workspace_id |-> "",
     rate_limit_delay |-> DefaultRateLimitDelay,
     max_retries |-> max_retries, timeout |-> DefaultTimeout]

\* validate without the check of the prefix
validate_PresenceOnly(cfg) ==
    IF cfg.api_key = <<>> THEN "POSTMAN_API_KEY not set" ELSE "ok"

\* PostmanConfig.validate: "ok", or the ValueError it raises
validate(cfg) ==
    IF cfg.api_key = <<>> THEN "POSTMAN_API_KEY not set"
    ELSE IF ~StartsWith(cfg.api_key, <<"P", "M", "A", "K", "-">>)
    THEN "Invalid POSTMAN_API_KEY format"
    ELSE "ok"

\* a handler built with one retry more than configured
RetryHandlerMaxRetries_OneMore(cfg) == cfg.max_retries + 1

\* a handler built with one retry fewer than configured
RetryHandlerMaxRetries_OneFewer(cfg) == cfg.max_retries - 1

\* PostmanClient.__init__: RetryHandler(max_retries=self.config.max_retries)
RetryHandlerMaxRetries(cfg) == cfg.max_retries

\* ------------------------------------------------------- error taxonomy
\* create_exception_from_response: the kind for a status code >= 400
Classify(status) ==
    CASE status = 401 -> "Authentication"
      [] status = 403 -> "Permission"
      [] status = 404 -> "ResourceNotFound"
      [] status = 400 \/ status = 422 -> "Validation"
      [] status = 429 -> "RateLimit"
      [] status >= 500 /\ status <= 599 -> "Server"
      [] OTHER -> "Unknown"

\* json.loads on the body text
json_loads(body) ==
    CASE body = "{meta}" ->
            [ok |-> TRUE, keys |-> {"meta"}, collection |-> {}]
      [] body = "{message}" ->
            [ok |-> TRUE, keys |-> {"message"}, collection |-> {}]
      [] body = "{collection:{fork}}" ->
            [ok |-> TRUE, keys |-> {"collection"}, collection |-> {"info", "fork"}]
      [] body = "{collection:{info}}" ->
            [ok |-> TRUE, keys |-> {"collection"}, collection |-> {"info"}]
      [] body = "{environment}" ->
            [ok |-> TRUE, keys |-> {"environment"}, collection |-> {}]
      [] body = "" -> [ok |-> FALSE, keys |-> {}, collection |-> {}]
      [] OTHER -> [ok |-> FALSE, keys |-> {}, collection |-> {}]

\* MockResponse.json without the case of the empty body
ResponseJson_NoEmptyCase(body) == json_loads(body)

\* MockResponse.json: json.loads(self._body) if self._body else {}
ResponseJson(body) ==
    IF body # "" THEN json_loads(body)
    ELSE [ok |-> TRUE, keys |-> {}, collection |-> {}]

\* create_exception_from_response: the message, a template of the kind joined
\* with the body's message field, else the raw body, else a generic phrase
ErrorMessage(status, body) ==
    LET parsed == json_loads(body) IN
    << Classify(status),
       IF parsed.ok /\ "message" \in parsed.keys THEN "message field"
       ELSE IF body # "" THEN body
       ELSE "generic" >>

\* ----------------------------------------------------------- retry policy
\* the kind of outcome an attempt ended in, as the retry policy sees it
OutcomeKind(o) ==
    IF o.t = "none" THEN "None"
    ELSE IF o.t = "raise" THEN o.kind
    ELSE IF o.status >= 400 THEN Classify(o.status)
    ELSE "Success"

\* RetryHandler: retry only the transient kinds, while retries are left
should_retry(o, used, max_retries) ==
    OutcomeKind(o) \in RetryableKinds /\ used < max_retries

\* ------------------------------------------------- API-version detection
\* str.startswith('v10') on the version labels the client can hold
StartsWithV10(version) == version \in {"v10+", "v10.2"}

\* _has_v10_structure: every path returns True
has_v10_structure(data) ==
    IF "meta" \in data.keys THEN TRUE
    ELSE IF /\ "collection" \in data.keys
            /\ ("fork" \in data.collection \/ "meta" \in data.collection)
    THEN TRUE
    ELSE TRUE

\* _detect_api_version with the probe of the body outside any try: a body
\* that does not parse lets the JSONDecodeError out
detect_api_version_NoTry(response, warned) ==
    IF response.header # ""
    THEN [version |-> response.header, warned |-> warned,
          warn |-> FALSE, raised |-> FALSE]
    ELSE LET data == ResponseJson(response.body) IN
         IF ~data.ok
         THEN [version |-> "None", warned |-> warned,
               warn |-> FALSE, raised |-> TRUE]
         ELSE [version |-> "v10+", warned |-> warned,
               warn |-> FALSE, raised |-> FALSE]

\* _detect_api_version: the label and the warned flag after detection,
\* whether _warn_about_old_version emitted its warning (warnings.warn prints
\* it), and whether an exception left the method (the bare except lets none)
detect_api_version(response, warned) ==
    IF response.header # ""
    THEN [version |-> response.header, warned |-> warned,
          warn |-> FALSE, raised |-> FALSE]
    ELSE LET data == ResponseJson(response.body)
             label == IF ~data.ok THEN "unknown"
                      ELSE IF has_v10_structure(data) THEN "v10+"
                      ELSE "v9-or-earlier"
         IN [version |-> label,
             warned |-> warned \/ ~StartsWithV10(label),
             warn |-> ~StartsWithV10(label) /\ ~warned,
             raised |-> FALSE]

\* ------------------------------------------------- results of _make_request
NoResult == [t |-> "none", kind |-> "", msg |-> <<"", "">>,
             status |-> 0, payload |-> {}]

Raise(kind, msg, status) ==
    [NoResult EXCEPT !.t = "raise", !.kind = kind, !.msg = msg, !.status = status]

Return(keys) == [NoResult EXCEPT !.t = "return", !.payload = keys]

\* the except clauses without the one that lets a TimeoutError through
CatchRetryError_NoTimeoutClause(o) ==
    IF o.kind = "Network" THEN Raise(o.kind, o.msg, 0)
    ELSE Raise("Network", <<"Request failed", o.msg[1]>>, 0)

\* the except clauses around retry_handler.execute
CatchRetryError(o) ==
    IF o.kind = "Timeout" THEN Raise(o.kind, o.msg, 0)
    ELSE IF o.kind = "Network" THEN Raise(o.kind, o.msg, 0)
    ELSE Raise("Network", <<"Request failed", o.msg[1]>>, 0)

\* the status check written with > instead of >=
IsErrorStatus_Exclusive(status_code) == status_code > 400

\* the status check taking redirects for errors
IsErrorStatus_FromRedirects(status_code) == status_code >= 300

\* the status check taking only server errors for errors
IsErrorStatus_ServerOnly(status_code) == status_code >= 500

\* the status check stopping at the last registered status class
IsErrorStatus_Capped(status_code) == status_code >= 400 /\ status_code < 600

\* the status that makes a response an error response
IsErrorStatus(status_code) == status_code >= 400

\* the tail with the exception built but not raised: every response goes on
\* to return response.json()
HandleResponse_NoRaise(response) ==
    LET data == ResponseJson(response.body) IN
    IF data.ok THEN Return(data.keys)
    ELSE Raise("JSONDecodeError", <<"JSONDecodeError", response.body>>, 0)

\* the tail of _make_request once the retry handler handed back a response
HandleResponse(response) ==
    IF IsErrorStatus(response.status)
    THEN Raise(Classify(response.status),
               ErrorMessage(response.status, response.body), response.status)
    ELSE LET data == ResponseJson(response.body) IN
         IF data.ok THEN Return(data.keys)
         ELSE Raise("JSONDecodeError", <<"JSONDecodeError", response.body>>, 0)

\* the guard of detection dropped: every response is inspected
NeedsDetection_Always(version) == TRUE

\* if self.api_version is None
NeedsDetection(version) == version = "None"

\* lines 225-234 with the status check ahead of detection: an error response
\* raises before its version is looked at
MakeRequestTail_StatusFirst(response, version, warned) ==
    IF NeedsDetection(version) /\ ~IsErrorStatus(response.status)
    THEN LET d == detect_api_version(response, warned) IN
         [version |-> d.version, warned |-> d.warned, detected |-> TRUE,
          warn |-> d.warn, result |-> HandleResponse(response)]
    ELSE [version |-> version, warned |-> warned, detected |-> FALSE,
          warn |-> FALSE, result |-> HandleResponse(response)]

\* lines 225-234: version detection on the first response, then the status
\* check and the return; an exception leaving detection would leave
\* _make_request in place of its outcome
MakeRequestTail(response, version, warned) ==
    IF NeedsDetection(version)
    THEN LET d == detect_api_version(response, warned) IN
         [version |-> d.version, warned |-> d.warned, detected |-> TRUE,
          warn |-> d.warn,
          result |-> IF d.raised
                     THEN Raise("JSONDecodeError",
                                <<"JSONDecodeError", response.body>>, 0)
                     ELSE HandleResponse(response)]
    ELSE [version |-> version, warned |-> warned, detected |-> FALSE,
          warn |-> FALSE, result |-> HandleResponse(response)]

\* ------------------------------------------------------------ API facade
\* Python text, as its characters
api_key_name == <<"a", "p", "i", "_", "k", "e", "y">>
base_url_name == <<"b", "a", "s", "e", "_", "u", "r", "l">>
DB_PWD_name == <<"D", "B", "_", "P", "W", "D">>
bearer_token_name ==
    <<"b", "e", "a", "r", "e", "r", "_", "t", "o", "k", "e", "n">>
timeout_name == <<"t", "i", "m", "e", "o", "u", "t">>

\* names of environment variables: two from the test of the environment
\* workflow, and one in upper case
VarNames == {api_key_name, base_url_name, DB_PWD_name}

UpperCase ==
    <<"A", "B", "C", "D", "E", "F", "G", "H", "I", "J", "K", "L", "M",
      "N", "O", "P", "Q", "R", "S", "T", "U", "V", "W", "X", "Y", "Z">>

LowerCase ==
    <<"a", "b", "c", "d", "e", "f", "g", "h", "i", "j", "k", "l", "m",
      "n", "o", "p", "q", "r", "s", "t", "u", "v", "w", "x", "y", "z">>

\* str.lower without the conversion
lower_Identity(text) == text

\* str.lower
lower(text) ==
    [i \in 1..Len(text) |->
        IF \E j \in 1..Len(UpperCase) : UpperCase[j] = text[i]
        THEN LowerCase[CHOOSE j \in 1..Len(UpperCase) : UpperCase[j] = text[i]]
        ELSE text[i]]

\* the operator `in` on two strings: part occurs in text
Contains(text, part) ==
    \E i \in 1..(Len(text) - Len(part) + 1) :
        SubSeq(text, i, i + Len(part) - 1) = part

\* _detect_secret_type: sensitive_keywords
sensitive_keywords ==
    << <<"k", "e", "y">>,
       <<"t", "o", "k", "e", "n">>,
       <<"s", "e", "c", "r", "e", "t">>,
       <<"p", "a", "s", "s", "w", "o", "r", "d">>,
       <<"p", "a", "s", "s", "w", "d">>,
       <<"p", "w", "d">>,
       <<"a", "u", "t", "h">>,
       <<"c", "r", "e", "d", "e", "n", "t", "i", "a", "l">>,
       <<"p", "r", "i", "v", "a", "t", "e">>,
       <<"a", "p", "i", "k", "e", "y">>,
       <<"a", "p", "i", "_", "k", "e", "y">>,
       <<"b", "e", "a", "r", "e", "r">>,
       <<"a", "u", "t", "h", "o", "r", "i", "z", "a", "t", "i", "o", "n">> >>

\* _detect_secret_type comparing the name with the keywords for equality
detect_secret_type_WholeName(key) ==
    IF \E i \in 1..Len(sensitive_keywords) : sensitive_keywords[i] = lower(key)
    THEN "secret" ELSE "default"

\* _detect_secret_type
detect_secret_type(key) ==
    LET key_lower == lower(key) IN
    IF \E i \in 1..Len(sensitive_keywords) :
          Contains(key_lower, sensitive_keywords[i])
    THEN "secret" ELSE "default"

\* Python values given for a variable: a str and an int, each with the text
\* str() makes of it
PyValues == {[py |-> "str", text |-> "new"], [py |-> "int", text |-> "30"]}

\* str(value)
str(value) == value.text

\* A variable object of an environment.  type is "secret", "default" or ""
\* when the object has no 'type' field; enabled is "True", "False" or ""
\* when the object has no 'enabled' field.
Variable(key, value, type, enabled) ==
    [key |-> key, value |-> value, type |-> type, enabled |-> enabled]

\* variable objects an environment on the server may hold, or a caller may
\* pass in a list: named after a keyword or not, typed to match the name or
\* not, typed or not, enabled or not
StoredVars ==
    { Variable(api_key_name, "k1", "secret", "True"),
      Variable(api_key_name, "k0", "default", "False"),
      Variable(base_url_name, "u1", "default", "True"),
      Variable(base_url_name, "s3", "secret", "True"),
      Variable(DB_PWD_name, "p1", "", "") }

\* lists of at most two variable objects; nothing keeps the keys of a list
\* distinct
VarLists ==
    {<<>>} \cup {<<v>> : v \in StoredVars}
    \cup {<<v, w>> : v \in StoredVars, w \in StoredVars}

\* a dict of at most two name -> value pairs, in insertion order; a dict of
\* two holds an int and a str
VarDicts ==
    {<<>>} \cup {<< <<k, x>> >> : k \in VarNames, x \in PyValues}
    \cup {d \in {<< <<k, [py |-> "int", text |-> "30"]>>,
                     <<l, [py |-> "str", text |-> "new"]>> >> :
                     k \in VarNames, l \in VarNames} : d[1][1] # d[2][1]}

NoValues == [kind |-> "none", items |-> <<>>]
DictValues(d) == [kind |-> "dict", items |-> d]
ListValues(l) == [kind |-> "list", items |-> l]

\* an environment: its name (pieces of text, joined) and its variables
Environment(name, values) == [name |-> name, values |-> values]

\* create_environment with every list entry typed anew from its name
fill_defaults_Retyped(var) ==
    [var EXCEPT !.type = detect_secret_type(var.key),
                !.enabled = IF @ = "" THEN "True" ELSE @]

\* create_environment, update_environment: a list entry gets the fields it
\* lacks
fill_defaults(var) ==
    [var EXCEPT !.type = IF @ = "" THEN detect_secret_type(var.key) ELSE @,
                !.enabled = IF @ = "" THEN "True" ELSE @]

\* create_environment: the variables of the payload
create_variables(values) ==
    IF values.items = <<>> THEN <<>>
    ELSE IF values.kind = "dict"
    THEN [i \in 1..Len(values.items) |->
            Variable(values.items[i][1], str(values.items[i][2]),
                     detect_secret_type(values.items[i][1]), "True")]
    ELSE [i \in 1..Len(values.items) |-> fill_defaults(values.items[i])]

\* create_environment: the payload that is POSTed
create_payload(name, values) == Environment(name, create_variables(values))

\* {v['key']: v for v in values}: one entry per key, at the place of the
\* key's first variable, holding the key's last variable
dict_by_key(values) ==
    LET first(i) == \A j \in 1..(i - 1) : values[j].key # values[i].key
        last(k) == values[CHOOSE i \in 1..Len(values) :
                            /\ values[i].key = k
                            /\ \A j \in (i + 1)..Len(values) : values[j].key # k]
        firsts == SelectSeq([i \in 1..Len(values) |-> i], first)
    IN [n \in 1..Len(firsts) |-> last(values[firsts[n]].key)]

\* the loop body of update_environment for one pair of the dict
update_one(current_vars, key, value) ==
    IF \E i \in 1..Len(current_vars) : current_vars[i].key = key
    THEN [i \in 1..Len(current_vars) |->
            IF current_vars[i].key # key THEN current_vars[i]
            ELSE [current_vars[i] EXCEPT
                    !.value = str(value),
                    !.type = IF @ # "secret" THEN detect_secret_type(key)
                             ELSE @]]
    ELSE Append(current_vars,
                Variable(key, str(value), detect_secret_type(key), "True"))

RECURSIVE update_all(_, _)
\* for key, value in values.items()
update_all(current_vars, items) ==
    IF items = <<>> THEN current_vars
    ELSE update_all(update_one(current_vars, items[1][1], items[1][2]),
                    Tail(items))

\* update_environment: the environment that is PUT, from the one fetched
update_payload(current, name, values) ==
    [name |-> IF name # <<>> THEN name ELSE current.name,
     values |->
        IF values.items = <<>> THEN current.values
        ELSE IF values.kind = "dict"
        THEN update_all(dict_by_key(current.values), values.items)
        ELSE [i \in 1..Len(values.items) |-> fill_defaults(values.items[i])]]

\* duplicate_environment: the arguments it hands to create_environment
duplicate_payload(original, name) ==
    create_payload(IF name # <<>> THEN name ELSE original.name \o <<" Copy">>,
                   IF original.values = <<>> THEN NoValues
                   ELSE ListValues(original.values))

\* a collection: info.name, whether info holds a uid and a _postman_id, and
\* its items
Collection(name, uid, postman_id) ==
    [name |-> name, uid |-> uid, postman_id |-> postman_id, item |-> "requests"]

\* duplicate_collection: the collection handed to create_collection
duplicate_collection_payload(original, name) ==
    [original EXCEPT
        !.name = IF name # <<>> THEN name ELSE original.name \o <<" Copy">>,
        !.uid = "", !.postman_id = ""]

\* the body of a request or a response: {'environment': ...} or
\* {'collection': ...}
JsonEnvironment(environment) ==
    [root |-> "environment", environment |-> environment,
     collection |-> Collection(<<>>, "", "")]

JsonCollection(collection) ==
    [root |-> "collection", environment |-> Environment(<<>>, <<>>),
     collection |-> collection]

Header(name, value) == [name |-> name, value |-> value]

\* PostmanConfig.headers without the API key
headers_NoKey(cfg) == << Header("Content-Type", <<"application/json">>) >>

\* PostmanConfig.headers
headers(cfg) ==
    << Header("X-API-Key", cfg.api_key),
       Header("Content-Type", <<"application/json">>) >>

\* PostmanConfig.base_url
base_url == "https://api.getpostman.com"

\* workspace_id = workspace_id or self.config.workspace_id, and the endpoint
\* of a listing or a creation
workspace_endpoint(path, workspace_id, cfg) ==
    LET ws == IF workspace_id # "" THEN workspace_id ELSE cfg.workspace_id IN
    IF ws # "" THEN <<path, "?workspace=", ws>> ELSE <<path>>

\* _make_request: the curl command.  json is <<>> when the caller passes no
\* body, else the one body.
curl_cmd(method, endpoint, json, cfg) ==
    [argv |-> <<"curl", "-s", "-k", "-i">>,
     X |-> IF method # "GET" THEN <<method>> ELSE <<>>,
     H |-> headers(cfg)
           \o (IF json # <<>>
               THEN << Header("Content-Type", <<"application/json">>) >>
               ELSE <<>>),
     d |-> json,
     max_time |-> cfg.timeout,
     url |-> <<base_url>> \o endpoint]

NoCommand == [argv |-> <<>>, X |-> <<>>, H |-> <<>>, d |-> <<>>,
              max_time |-> 0, url |-> <<>>]

\* the HTTP method curl uses for a command
MethodOf(cmd) == IF cmd.X = <<>> THEN "GET" ELSE cmd.X[1]

\* What becomes of one attempt of a facade request: the server answers 200;
\* the connection is refused; the server carries the request out and the
\* answer does not arrive before curl gives up; the server answers 404.
FacadeRuns ==
    { [proc |-> [NoProc EXCEPT !.ev = "answered", !.out = "response",
                               !.status = 200, !.body = "{environment}"],
       reached |-> TRUE],
      [proc |-> [NoProc EXCEPT !.ev = "refused"], reached |-> FALSE],
      [proc |-> [NoProc EXCEPT !.ev = "slow"], reached |-> TRUE],
      [proc |-> [NoProc EXCEPT !.ev = "answered", !.out = "response",
                               !.status = 404, !.body = "{message}"],
       reached |-> FALSE] }

VARIABLES
    config,              \* PostmanConfig: max_retries, timeout
    retry_max,           \* retry_handler.max_retries
    api_version,         \* "None" until detected
    api_version_warned,
    detect_runs,         \* times _detect_api_version has been entered
    warnings,            \* warnings emitted by _warn_about_old_version
    pc,                  \* "new", "rejected", "idle", "retry", "handled", "done"
    attempt,             \* retry handler's loop counter: retries used so far
    made,                \* attempts (runs of execute_curl) made in this call
    swallowed,           \* the kind of the failures retried in this call:
                         \* "none", the one kind they all had, or "mixed"
    last,                \* outcome of the latest attempt
    result,              \* what _make_request gave its caller
    version_log,         \* the values assigned to api_version, in order
    th,                  \* calls of threads sharing the client: per thread its
                         \* place in _make_request, loop counter, outcome held
                         \* and result
    remote,              \* what the server holds
    fc                   \* facade calls, per caller: method and arguments,
                         \* the request in hand, what was fetched, the
                         \* requests issued and the outcome

vars == <<config, retry_max, api_version, api_version_warned, detect_runs,
          warnings, pc, attempt, made, swallowed, last, result, version_log, th, remote, fc>>

\* threads that share one client instance
Threads == {"A", "B"}

NoCall == [pc |-> "idle", attempt |-> 0, last |-> NoOutcome, result |-> NoResult]

\* ------------------------------------------------ the facade on one server
\* the identifiers the facade methods are called with
environment_uid == "e1"
collection_uid == "c1"

\* a facade call that has not started
NoFacadeCall ==
    [op |-> "none", name |-> <<>>, values |-> NoValues, pc |-> "idle",
     cmd |-> NoCommand, attempt |-> 0, last |-> NoOutcome, fetched |-> <<>>,
     log |-> <<>>, applied |-> 0, seen |-> 0, first_put |-> 0,
     result |-> "none"]

\* the server: environment e1, collection c1, what POSTs have created, how
\* often e1 was PUT and by which caller last
Server(environment) ==
    [env |-> environment,
     collection |-> Collection(<<"Pets">>, collection_uid, "id-1"),
     created |-> <<>>, version |-> 0, writer |-> "none"]

\* the environment is set and PostmanConfig() has read it
Init ==
    /\ \E k \in ApiKeys, m \in 0..MaxRetriesBound : config = PostmanConfig(k, m)
    /\ retry_max = 0
    /\ api_version = "None"
    /\ api_version_warned = FALSE
    /\ detect_runs = 0
    /\ warnings = 0
    /\ pc = "new"
    /\ attempt = 0
    /\ made = 0
    /\ swallowed = "none"
    /\ last = NoOutcome
    /\ result = NoResult
    /\ version_log = <<>>
    /\ th = [t \in Threads |-> NoCall]
    /\ remote = Server(Environment(<<"Prod">>, <<>>))
    /\ fc = [c \in Threads |-> NoFacadeCall]

\* construction that brings the retry count into the range it supports
Construct_ClampsRetries ==
    /\ pc = "new"
    /\ IF validate(config) = "ok"
       THEN /\ pc' = "idle"
            /\ config' = [config EXCEPT !.max_retries = 0]
            /\ retry_max' = RetryHandlerMaxRetries(config')
       ELSE pc' = "rejected" /\ retry_max' = retry_max /\ config' = config
    /\ UNCHANGED <<api_version, api_version_warned, detect_runs,
                   warnings, attempt, made, swallowed, last, result,
                   version_log, th, remote, fc>>

\* PostmanClient.__init__ (and get_config): validate the configuration, then
\* build the retry handler; a ValueError (or sys.exit) leaves no client
Construct ==
    /\ pc = "new"
    /\ IF validate(config) = "ok"
       THEN pc' = "idle" /\ retry_max' = RetryHandlerMaxRetries(config)
       ELSE pc' = "rejected" /\ retry_max' = retry_max
    /\ UNCHANGED <<config, api_version, api_version_warned, detect_runs,
                   warnings, attempt, made, swallowed, last, result,
                   version_log, th, remote, fc>>

\* a caller enters _make_request: the curl command is built, the retry
\* handler starts its loop
MakeRequest ==
    /\ pc \in {"idle", "done"}
    /\ pc' = "retry"
    /\ attempt' = 0
    /\ made' = 0
    /\ swallowed' = "none"
    /\ last' = NoOutcome
    /\ result' = NoResult
    /\ UNCHANGED <<config, retry_max, api_version, api_version_warned,
                   detect_runs, warnings, version_log, th, remote, fc>>

\* one pass of the retry handler's loop: execute_curl runs once, and the
\* handler either sleeps and goes round again or hands the outcome back
Attempt(proc) ==
    /\ pc = "retry"
    /\ LET o == execute_curl(proc, config.timeout) IN
          /\ last' = o
          /\ made' = made + 1
          /\ IF should_retry(o, attempt, retry_max)
             THEN /\ attempt' = attempt + 1
                  /\ pc' = "retry"
                  /\ swallowed' = IF swallowed \in {"none", OutcomeKind(o)}
                                  THEN OutcomeKind(o) ELSE "mixed"
             ELSE /\ attempt' = attempt
                  /\ pc' = "handled"
                  /\ swallowed' = swallowed
    /\ UNCHANGED <<config, retry_max, api_version, api_version_warned,
                   detect_runs, warnings, result, version_log, th, remote, fc>>

\* the rest of _make_request: the except clauses, version detection on the
\* first response, the status check and the return
Complete ==
    /\ pc = "handled"
    /\ pc' = "done"
    /\ IF last.t = "raise"
       THEN /\ result' = CatchRetryError(last)
            /\ UNCHANGED <<api_version, api_version_warned, detect_runs,
                           warnings, version_log>>
       ELSE LET tail == MakeRequestTail(last, api_version, api_version_warned) IN
            /\ api_version' = tail.version
            /\ api_version_warned' = tail.warned
            /\ detect_runs' = detect_runs + (IF tail.detected THEN 1 ELSE 0)
            /\ warnings' = warnings + (IF tail.warn THEN 1 ELSE 0)
            /\ version_log' = IF tail.detected
                              THEN Append(version_log, tail.version)
                              ELSE version_log
            /\ result' = tail.result
    /\ UNCHANGED <<config, retry_max, attempt, made, swallowed, last, th, remote, fc>>

Next ==
    \/ Construct
    \/ MakeRequest
    \/ \E proc \in CurlRuns : Attempt(proc)
    \/ Complete

Spec == Init /\ [][Next]_vars

\* the calling thread runs on: every attempt ends (curl is killed at the
\* subprocess timeout, back-off sleeps are finite) and the tail is straight code
\* The same client against a wire that answers with every status and every
\* transport failure, but always with the same header and body.
CoreRuns ==
    {r \in CurlRuns : r.out = "response" => (r.header = "" /\ r.body = "{message}")}

CoreNext ==
    \/ Construct
    \/ MakeRequest
    \/ \E proc \in CoreRuns : Attempt(proc)
    \/ Complete

FairSpec ==
    /\ Init /\ [][CoreNext]_vars
    /\ WF_vars(\E proc \in CoreRuns : Attempt(proc))
    /\ WF_vars(Complete)

\* ------------------------------------------- one client shared by threads
\* The client as two threads use it without synchronisation.  Each thread runs
\* _make_request; the test of api_version (line 226) and the detection it
\* guards (line 227) are separate steps, so another thread can run between
\* them.  The wire answers with or without a version header.
RaceRuns ==
    {r \in CurlRuns :
        \/ r.ev = "refused"
        \/ /\ r.out = "response"
           /\ r.status \in {200, 404}
           /\ r.body \in {"{meta}", "<html>"}}

\* construction has succeeded; no call is in flight
RaceInit ==
    /\ \E m \in 0..MaxRetriesBound :
          /\ config = PostmanConfig(<<"P", "M", "A", "K", "-", "7">>, m)
          /\ retry_max = RetryHandlerMaxRetries(config)
    /\ api_version = "None"
    /\ api_version_warned = FALSE
    /\ detect_runs = 0
    /\ warnings = 0
    /\ pc = "idle"
    /\ attempt = 0
    /\ made = 0
    /\ swallowed = "none"
    /\ last = NoOutcome
    /\ result = NoResult
    /\ version_log = <<>>
    /\ th = [t \in Threads |-> NoCall]
    /\ remote = Server(Environment(<<"Prod">>, <<>>))
    /\ fc = [c \in Threads |-> NoFacadeCall]

ClientOnly ==
    UNCHANGED <<config, retry_max, pc, attempt, made, swallowed, last, result,
                remote, fc>>

\* thread t enters _make_request
T_MakeRequest(t) ==
    /\ th[t].pc \in {"idle", "done"}
    /\ th' = [th EXCEPT ![t] = [NoCall EXCEPT !.pc = "retry"]]
    /\ UNCHANGED <<api_version, api_version_warned, detect_runs, warnings,
                   version_log>>
    /\ ClientOnly

\* one pass of the retry handler's loop in thread t
T_Attempt(t, proc) ==
    /\ th[t].pc = "retry"
    /\ LET o == execute_curl(proc, config.timeout) IN
       IF should_retry(o, th[t].attempt, retry_max)
       THEN th' = [th EXCEPT ![t].attempt = @ + 1]
       ELSE th' = [th EXCEPT ![t].pc = "handled", ![t].last = o]
    /\ UNCHANGED <<api_version, api_version_warned, detect_runs, warnings,
                   version_log>>
    /\ ClientOnly

\* the retry handler raised: the except clauses, or it returned a response:
\* the test `if self.api_version is None`
T_Check(t) ==
    /\ th[t].pc = "handled"
    /\ IF th[t].last.t = "raise"
       THEN th' = [th EXCEPT ![t].pc = "done",
                             ![t].result = CatchRetryError(th[t].last)]
       ELSE th' = [th EXCEPT ![t].pc = IF NeedsDetection(api_version)
                                       THEN "detect" ELSE "status"]
    /\ UNCHANGED <<api_version, api_version_warned, detect_runs, warnings,
                   version_log>>
    /\ ClientOnly

\* _detect_api_version in thread t, entered because the test found None
T_Detect(t) ==
    /\ th[t].pc = "detect"
    /\ LET d == detect_api_version(th[t].last, api_version_warned) IN
          /\ api_version' = d.version
          /\ api_version_warned' = d.warned
          /\ warnings' = warnings + (IF d.warn THEN 1 ELSE 0)
          /\ version_log' = Append(version_log, d.version)
          /\ detect_runs' = detect_runs + 1
          /\ th' = [th EXCEPT ![t].pc = "status"]
    /\ ClientOnly

\* the status check and the return in thread t
T_Status(t) ==
    /\ th[t].pc = "status"
    /\ th' = [th EXCEPT ![t].pc = "done",
                          ![t].result = HandleResponse(th[t].last)]
    /\ UNCHANGED <<api_version, api_version_warned, detect_runs, warnings,
                   version_log>>
    /\ ClientOnly

RaceNext ==
    \E t \in Threads :
        \/ T_MakeRequest(t)
        \/ \E proc \in RaceRuns : T_Attempt(t, proc)
        \/ T_Check(t)
        \/ T_Detect(t)
        \/ T_Status(t)

RaceSpec == RaceInit /\ [][RaceNext]_vars

\* a facade method that creates at once
first_request_CreateAtOnce(op, name, values, cfg) ==
    curl_cmd("POST", workspace_endpoint("/environments", "", cfg),
             <<JsonEnvironment(create_payload(name, values))>>, cfg)

\* the first request of a facade method
first_request(op, name, values, cfg) ==
    CASE op = "create_environment" ->
            curl_cmd("POST", workspace_endpoint("/environments", "", cfg),
                     <<JsonEnvironment(create_payload(name, values))>>, cfg)
      [] op \in {"update_environment", "duplicate_environment"} ->
            curl_cmd("GET", <<"/environments/", environment_uid>>, <<>>, cfg)
      [] OTHER ->
            curl_cmd("GET", <<"/collections/", collection_uid>>, <<>>, cfg)

\* a facade method is called
F_Call(c, op, name, values) ==
    /\ pc = "idle"
    /\ fc[c].pc = "idle"
    /\ fc' = [fc EXCEPT ![c] =
                [NoFacadeCall EXCEPT
                    !.op = op, !.name = name, !.values = values,
                    !.pc = "request",
                    !.cmd = first_request(op, name, values, config),
                    !.log = <<MethodOf(first_request(op, name, values, config))>>]]
    /\ UNCHANGED <<config, retry_max, api_version, api_version_warned,
                   detect_runs, warnings, pc, attempt, made, swallowed, last,
                   result, version_log, th, remote>>

\* a facade method goes on after _make_request returned the parsed body of
\* its request; server is what the response showed
after_return(call, server, cfg) ==
    IF MethodOf(call.cmd) # "GET"
    THEN [call EXCEPT !.pc = "done", !.result = "ok"]
    ELSE CASE call.op = "update_environment" ->
                [call EXCEPT
                    !.fetched = <<JsonEnvironment(server.env)>>,
                    !.seen = server.version,
                    !.attempt = 0,
                    !.log = Append(@, "PUT"),
                    !.cmd = curl_cmd("PUT", <<"/environments/", environment_uid>>,
                              <<JsonEnvironment(
                                  update_payload(server.env, call.name,
                                                 call.values))>>, cfg)]
           [] call.op = "duplicate_environment" ->
                [call EXCEPT
                    !.fetched = <<JsonEnvironment(server.env)>>,
                    !.seen = server.version,
                    !.attempt = 0,
                    !.log = Append(@, "POST"),
                    !.cmd = curl_cmd("POST",
                              workspace_endpoint("/environments", "", cfg),
                              <<JsonEnvironment(
                                  duplicate_payload(server.env, call.name))>>,
                              cfg)]
           [] OTHER ->
                [call EXCEPT
                    !.fetched = <<JsonCollection(server.collection)>>,
                    !.attempt = 0,
                    !.log = Append(@, "POST"),
                    !.cmd = curl_cmd("POST",
                              workspace_endpoint("/collections", "", cfg),
                              <<JsonCollection(
                                  duplicate_collection_payload(
                                      server.collection, call.name))>>, cfg)]

\* a server that keeps, on a PUT, the variables the body does not name
serve_KeepsOthers(server, c, cmd) ==
    CASE MethodOf(cmd) = "POST" ->
            [server EXCEPT !.created = Append(@, cmd.d[1])]
      [] MethodOf(cmd) = "PUT" ->
            [server EXCEPT
                !.env = [cmd.d[1].environment EXCEPT
                           !.values = @ \o SelectSeq(server.env.values,
                              LAMBDA v : \A i \in 1..Len(cmd.d[1].environment.values) :
                                  cmd.d[1].environment.values[i].key # v.key)],
                !.version = @ + 1, !.writer = c]
      [] OTHER -> server

\* what the server holds once a request has reached it
serve(server, c, cmd) ==
    CASE MethodOf(cmd) = "POST" ->
            [server EXCEPT !.created = Append(@, cmd.d[1])]
      [] MethodOf(cmd) = "PUT" ->
            [server EXCEPT !.env = cmd.d[1].environment,
                           !.version = @ + 1, !.writer = c]
      [] OTHER -> server

\* one pass of the retry handler's loop for the request of a facade call,
\* and, when the handler is done, the rest of _make_request and the facade
\* method up to its next request
F_Attempt(c, run) ==
    /\ fc[c].pc = "request"
    /\ LET call == fc[c]
           o == execute_curl(run.proc, config.timeout)
           wrote == run.reached /\ MethodOf(call.cmd) # "GET"
           counted ==
              [call EXCEPT
                  !.last = o,
                  !.applied = @ + (IF wrote THEN 1 ELSE 0),
                  !.first_put = IF wrote /\ MethodOf(call.cmd) = "PUT" /\ @ = 0
                                THEN remote.version + 1 ELSE @]
       IN
       /\ remote' = IF run.reached THEN serve(remote, c, call.cmd) ELSE remote
       /\ IF should_retry(o, call.attempt, retry_max)
          THEN /\ fc' = [fc EXCEPT ![c] = [counted EXCEPT !.attempt = @ + 1]]
               /\ UNCHANGED <<api_version, api_version_warned, detect_runs,
                              warnings, version_log>>
          ELSE IF o.t = "raise"
          THEN /\ fc' = [fc EXCEPT ![c] =
                           [counted EXCEPT !.pc = "done",
                                           !.result = CatchRetryError(o).kind]]
               /\ UNCHANGED <<api_version, api_version_warned, detect_runs,
                              warnings, version_log>>
          ELSE LET tail == MakeRequestTail(o, api_version, api_version_warned) IN
               /\ api_version' = tail.version
               /\ api_version_warned' = tail.warned
               /\ detect_runs' = detect_runs + (IF tail.detected THEN 1 ELSE 0)
               /\ warnings' = warnings + (IF tail.warn THEN 1 ELSE 0)
               /\ version_log' = IF tail.detected
                                 THEN Append(version_log, tail.version)
                                 ELSE version_log
               /\ fc' = [fc EXCEPT ![c] =
                           IF tail.result.t = "raise"
                           THEN [counted EXCEPT !.pc = "done",
                                                !.result = tail.result.kind]
                           ELSE after_return(counted, remote, config)]
    /\ UNCHANGED <<config, retry_max, pc, attempt, made, swallowed, last,
                   result, th>>

\* the configuration is read, the key is well formed, and environment e1 is
\* on the server
FacadeStart(retries, environments) ==
    /\ \E m \in retries :
          config = PostmanConfig(<<"P", "M", "A", "K", "-", "7">>, m)
    /\ retry_max = 0
    /\ api_version = "None"
    /\ api_version_warned = FALSE
    /\ detect_runs = 0
    /\ warnings = 0
    /\ pc = "new"
    /\ attempt = 0
    /\ made = 0
    /\ swallowed = "none"
    /\ last = NoOutcome
    /\ result = NoResult
    /\ version_log = <<>>
    /\ th = [t \in Threads |-> NoCall]
    /\ \E e \in environments : remote = Server(e)
    /\ fc = [c \in Threads |-> NoFacadeCall]

\* the values argument of create_environment
ValuesArgs ==
    {NoValues} \cup {DictValues(d) : d \in VarDicts}
    \cup {ListValues(l) : l \in VarLists \ {<<>>}}

\* the values argument of update_environment: any dict, and a list with and
\* without the fields 'type' and 'enabled'
UpdateArgs ==
    {NoValues} \cup {DictValues(d) : d \in VarDicts}
    \cup {ListValues(<<Variable(DB_PWD_name, "p1", "", ""),
                       Variable(base_url_name, "s3", "secret", "True")>>)}

\* the name argument of update_environment and the duplicate methods
NameArgs == {<<>>, <<"Staging">>}

\* One caller, one facade call, any arguments, on any environment.
FacadeInit ==
    FacadeStart(0..FacadeMaxRetries,
                {Environment(<<"Prod">>, l) : l \in VarLists})

CreateEnvironment ==
    \E values \in ValuesArgs : F_Call("A", "create_environment", <<"Prod">>, values)

UpdateEnvironment ==
    \E name \in NameArgs, values \in UpdateArgs :
        F_Call("A", "update_environment", name, values)

DuplicateEnvironment ==
    \E name \in NameArgs : F_Call("A", "duplicate_environment", name, NoValues)

DuplicateCollection ==
    \E name \in NameArgs : F_Call("A", "duplicate_collection", name, NoValues)

FacadeNext ==
    \/ Construct
    \/ CreateEnvironment
    \/ UpdateEnvironment
    \/ DuplicateEnvironment
    \/ DuplicateCollection
    \/ \E run \in FacadeRuns : F_Attempt("A", run)

FacadeSpec == FacadeInit /\ [][FacadeNext]_vars

\* Two callers update environment e1, each with one variable, in any
\* interleaving of their requests.
WriterDicts ==
    { << <<api_key_name, [py |-> "str", text |-> "new"]>> >>,
      << <<DB_PWD_name, [py |-> "int", text |-> "30"]>> >> }

WriterEnvironments ==
    { Environment(<<"Prod">>, <<>>),
      Environment(<<"Prod">>, <<Variable(api_key_name, "k1", "secret", "True")>>),
      Environment(<<"Prod">>, <<Variable(api_key_name, "k1", "secret", "True"),
                                Variable(base_url_name, "u1", "default", "True")>>) }

LostUpdateInit == FacadeStart(0..FacadeMaxRetries, WriterEnvironments)

LostUpdateNext ==
    \/ Construct
    \/ \E c \in Threads :
          \/ \E d \in WriterDicts :
                F_Call(c, "update_environment", <<>>, DictValues(d))
          \/ \E run \in FacadeRuns : F_Attempt(c, run)

LostUpdateSpec == LostUpdateInit /\ [][LostUpdateNext]_vars

\* ---------------------------------------------------------------- helpers
\* every attempt made so far in the current call ended in kind k
AlwaysFailedWith(k) ==
    made >= 1 /\ swallowed \in {"none", k} /\ OutcomeKind(last) = k

\* the message of the error an attempt's outcome stands for: the error it
\* raised, or the error its response is classified as
AttemptMessage(o) ==
    IF o.t = "raise" THEN o.msg ELSE ErrorMessage(o.status, o.body)

\* an attempt ends in this step
AttemptEnded == pc = "retry" /\ made' = made + 1

\* ------------------------------------------------------------------ claims

\* C1: with max_retries = 3 and every attempt ending in a Server error (a 5xx
\* response), the retry handler gives up only after exactly 4 attempts, and
\* the caller of _make_request then gets the Server error of the last one.
C1_ServerErrorFourAttempts ==
    (config.max_retries = 3 /\ AlwaysFailedWith("Server")) =>
        /\ pc \in {"handled", "done"} <=> made = 4
        /\ pc = "done" =>
              /\ result.t = "raise" /\ result.kind = "Server"
              /\ result.status = last.status

C1_Witness ==
    /\ pc = "done" /\ config.max_retries = 3
    /\ swallowed = "Server" /\ made = 4 /\ last.status = 503
    /\ result.t = "raise" /\ result.kind = "Server"

\* C2: once the retries are exhausted (max_retries + 1 attempts made, the last
\* one ending in a retryable kind), the caller receives the last failure
\* verbatim: the kind and the message of the final attempt's error.
C2_LastFailureVerbatim ==
    (/\ pc = "done"
     /\ made = config.max_retries + 1
     /\ OutcomeKind(last) \in RetryableKinds) =>
        /\ result.t = "raise"
        /\ result.kind = OutcomeKind(last)
        /\ result.msg = AttemptMessage(last)

C2_Witness ==
    /\ pc = "done" /\ config.max_retries >= 2
    /\ made = config.max_retries + 1
    /\ swallowed = "mixed"
    /\ last.t = "raise" /\ last.kind = "Timeout"
    /\ result.t = "raise" /\ result.kind = "Timeout" /\ result.msg = last.msg

\* C3: while the first N-1 attempts have ended in a Network error
\* (N <= max_retries) the handler is still retrying, and when the Nth attempt
\* then succeeds no further attempt is made: the call has made exactly N
\* attempts and returns the payload of the Nth attempt's response.
C3_NetworkThenSuccess ==
    /\ (AlwaysFailedWith("Network") /\ made + 1 <= config.max_retries)
          => pc = "retry"
    /\ (/\ OutcomeKind(last) = "Success"
        /\ swallowed \in {"none", "Network"}
        /\ made <= config.max_retries) =>
          /\ pc \in {"handled", "done"}
          /\ made = attempt + 1
          /\ (pc = "done" /\ ResponseJson(last.body).ok) =>
                /\ result.t = "return"
                /\ result.payload = ResponseJson(last.body).keys

C3_Witness ==
    /\ pc = "done" /\ config.max_retries = 3
    /\ swallowed = "Network" /\ made = 3
    /\ last.t = "resp" /\ last.status = 200 /\ last.body = "{meta}"
    /\ result.t = "return" /\ result.payload = {"meta"}

\* C4: when every attempt ends in ResourceNotFound (a 404 response), exactly
\* 1 attempt is made and the caller gets that ResourceNotFound error: status
\* 404 and the message of that response.
C4_NotFoundOnce ==
    AlwaysFailedWith("ResourceNotFound") =>
        /\ made = 1
        /\ pc \in {"handled", "done"}
        /\ pc = "done" =>
              /\ result.t = "raise" /\ result.kind = "ResourceNotFound"
              /\ result.status = 404
              /\ result.msg = ErrorMessage(404, last.body)

C4_Witness ==
    /\ pc = "done" /\ config.max_retries = 3
    /\ OutcomeKind(last) = "ResourceNotFound" /\ made = 1
    /\ result.t = "raise" /\ result.kind = "ResourceNotFound"

\* C5: an attempt that ends in a Network, Timeout, RateLimit or Server error
\* while fewer than max_retries retries have been used is followed by another
\* attempt: the handler uses one more retry and goes round its loop again.
C5_RetryableIsRetried ==
    [][(/\ AttemptEnded
        /\ OutcomeKind(last') \in RetryableKinds
        /\ attempt < config.max_retries)
          => (pc' = "retry" /\ attempt' = attempt + 1)]_vars

C5_Witness ==
    /\ pc = "retry" /\ attempt = config.max_retries /\ attempt >= 2
    /\ swallowed = "mixed" /\ OutcomeKind(last) = "RateLimit"

\* C6: an attempt that ends in Authentication, Permission, ResourceNotFound,
\* Validation or Unknown is the last attempt of its call: no attempt is
\* pending after it, no failure of these kinds is ever retried, and the
\* caller gets an error of that kind.
C6_NonRetryablePropagates ==
    /\ swallowed \notin NonRetryableKinds
    /\ OutcomeKind(last) \in NonRetryableKinds =>
          /\ pc \in {"handled", "done"}
          /\ pc = "done" => result.t = "raise" /\ result.kind = OutcomeKind(last)

C6_Witness ==
    /\ pc = "done" /\ config.max_retries = 3 /\ attempt = 1
    /\ swallowed = "Server" /\ OutcomeKind(last) = "Validation"
    /\ result.t = "raise" /\ result.kind = "Validation"

\* C7: a logical call makes at most max_retries + 1 attempts, an attempt is
\* pending only while fewer than that have been made, and the call, once
\* started, ends by returning or raising.
C7_BoundedAttempts ==
    /\ [](made <= config.max_retries + 1)
    /\ [](pc = "retry" => made <= config.max_retries)
    /\ [](pc = "done" => result.t \in {"return", "raise"})
    /\ (pc = "retry") ~> (pc = "done")

C7_Witness ==
    /\ pc = "done" /\ config.max_retries = 3
    /\ made = 4 /\ swallowed = "Timeout" /\ OutcomeKind(last) = "Success"
    /\ result.t = "return"

\* C8: a response whose status is one of 401, 403, 404, 400, 422, 429, 500,
\* 502, 503 gives the caller an error of the documented kind.
Documented ==
    [s \in {401, 403, 404, 400, 422, 429, 500, 502, 503} |->
        CASE s = 401 -> "Authentication"
          [] s = 403 -> "Permission"
          [] s = 404 -> "ResourceNotFound"
          [] s \in {400, 422} -> "Validation"
          [] s = 429 -> "RateLimit"
          [] s \in {500, 502, 503} -> "Server"]

C8_DocumentedKinds ==
    (pc = "done" /\ last.t = "resp" /\ last.status \in DOMAIN Documented) =>
        /\ result.t = "raise"
        /\ result.kind = Documented[last.status]
        /\ result.status = last.status

C8_Witness ==
    /\ pc = "done" /\ last.t = "resp" /\ last.status = 422
    /\ result.t = "raise" /\ result.kind = "Validation"

\* C9: a response whose status is >= 400 and has no mapping of its own gives
\* the caller an Unknown error, and every response with a status >= 400,
\* whatever its body, gives an error of the taxonomy.
Mapped == {400, 401, 403, 404, 422, 429} \cup (500..599)

C9_UnmappedIsUnknown ==
    (pc = "done" /\ last.t = "resp" /\ last.status >= 400) =>
        /\ result.t = "raise"
        /\ result.kind \in ErrorKinds
        /\ last.status \notin Mapped => result.kind = "Unknown"

C9_Witness ==
    /\ pc = "done" /\ last.t = "resp" /\ last.status = 600
    /\ last.body = "<html>"
    /\ result.t = "raise" /\ result.kind = "Unknown"

\* C10: a request that exceeds the configured timeout ends its attempt in a
\* Timeout error and a connection failure ends it in a Network error, never
\* the other way round.
C10_TransportKinds ==
    /\ last.ev = "slow" => (last.t = "raise" /\ last.kind = "Timeout")
    /\ last.ev = "refused" => (last.t = "raise" /\ last.kind = "Network")

\* C11: every call that ends has either returned a parsed payload or raised
\* an error of the taxonomy; nothing else leaves _make_request.
C11_TypedOutcomeOnly ==
    pc = "done" =>
        \/ result.t = "return"
        \/ result.t = "raise" /\ result.kind \in ErrorKinds

\* C12: a response with status >= 400 gives its caller no payload: the call
\* raises the error that response classifies as, with its status and message;
\* a 404 raises ResourceNotFound.
C12_ErrorStatusRaises ==
    (pc = "done" /\ last.t = "resp" /\ last.status >= 400) =>
        /\ result.t = "raise" /\ result.payload = {}
        /\ result.kind = OutcomeKind(last)
        /\ result.status = last.status
        /\ result.msg = AttemptMessage(last)
        /\ last.status = 404 => result.kind = "ResourceNotFound"

C12_Witness ==
    /\ pc = "done" /\ last.t = "resp" /\ last.status = 404
    /\ last.body = "{collection:{info}}"
    /\ result.t = "raise" /\ result.kind = "ResourceNotFound"

\* C13: a response with status < 400 whose body is JSON text is returned as
\* that body parsed, and one whose body is empty as the empty object.
C13_SuccessReturnsJson ==
    (/\ pc = "done" /\ last.t = "resp" /\ last.status < 400
     /\ (last.body = "" \/ json_loads(last.body).ok)) =>
        /\ result.t = "return"
        /\ result.payload =
              IF last.body = "" THEN {} ELSE json_loads(last.body).keys

C13_Witness ==
    /\ pc = "done" /\ last.t = "resp" /\ last.status = 200 /\ last.body = ""
    /\ result.t = "return" /\ result.payload = {}

\* C14: a configuration whose API key is missing or does not start with
\* PMAK- never gets past construction: the client is rejected, and no attempt
\* is ever made, no outcome seen and no result given under it.
KeyHasPrefix(key) ==
    /\ Len(key) >= 5
    /\ key[1] = "P" /\ key[2] = "M" /\ key[3] = "A" /\ key[4] = "K" /\ key[5] = "-"

C14_RejectedBeforeAnyRequest ==
    ~KeyHasPrefix(config.api_key) =>
        /\ pc \in {"new", "rejected"}
        /\ made = 0 /\ last = NoOutcome /\ result = NoResult

C14_Witness ==
    /\ pc = "rejected" /\ config.api_key = <<"p", "m", "a", "k", "-", "7">>
    /\ made = 0

\* C15: when detection inspects a response without a version header, a body
\* with a meta key is labelled v10+, and a body without meta and without fork
\* or meta inside a nested collection is labelled v9-or-earlier.
C15_BodyShapeLabels ==
    [][(/\ pc = "handled" /\ pc' = "done"
        /\ last.t = "resp" /\ last.header = "" /\ api_version = "None"
        /\ json_loads(last.body).ok) =>
          LET data == json_loads(last.body) IN
          /\ "meta" \in data.keys => api_version' = "v10+"
          /\ (/\ "meta" \notin data.keys
              /\ "fork" \notin data.collection
              /\ "meta" \notin data.collection) => api_version' = "v9-or-earlier"
      ]_vars

\* C16: over any sequence of calls on one client, _detect_api_version is
\* entered for the first completed response and for no later one: it has run
\* once as soon as a response was handled, and never runs a second time.
C16_DetectsOnce ==
    /\ [](detect_runs <= 1)
    /\ []((pc = "done" /\ last.t = "resp") => detect_runs = 1)
    /\ [][detect_runs' # detect_runs =>
            (detect_runs = 0 /\ pc = "handled" /\ last.t = "resp")]_vars

C16_Witness ==
    /\ pc = "done" /\ last.t = "resp" /\ last.header = "v10.2"
    /\ api_version = "v9" /\ detect_runs = 1

\* C17 as claimed: api_version is written exactly once, also when two calls
\* on the client interleave.
C17_WrittenOnce ==
    /\ Len(version_log) <= 1
    /\ api_version # "None" => version_log = <<api_version>>

\* C17 amended: api_version starts unset, is never reset, and always holds
\* the value the latest detection produced.  It is assigned only by the
\* detection of a call that found it unset: with two calls interleaving both
\* can find it unset, so it is assigned at most once per thread, the later
\* assignment replacing the earlier; a call that tests it once it is set
\* leaves it as it is.
C17_WrittenOncePerRacingCall ==
    /\ [](Len(version_log) <= Cardinality(Threads))
    /\ [](Len(version_log) = detect_runs)
    /\ [](IF version_log = <<>> THEN api_version = "None"
          ELSE /\ api_version = version_log[Len(version_log)]
               /\ api_version # "None")
    /\ [][api_version' # api_version =>
            \E t \in Threads :
               /\ th[t].pc = "detect" /\ th'[t].pc = "status"
               /\ api_version' =
                     detect_api_version(th[t].last, api_version_warned).version
         ]_vars
    /\ [][\A t \in Threads :
            (th[t].pc = "handled" /\ th[t].last.t = "resp"
             /\ api_version # "None" /\ th'[t].pc # th[t].pc)
               => th'[t].pc = "status"]_vars

C17_Witness ==
    /\ Len(version_log) = 2 /\ version_log[1] = "unknown"
    /\ api_version = "v9" /\ detect_runs = 2
    /\ th["A"].pc = "done" /\ th["B"].pc = "done"

\* C18: once a call has received a response, of any status, the client's
\* api_version is set, also when that call raised a classified error.
C18_DetectsOnFailureToo ==
    (pc = "done" /\ last.t = "resp") =>
        /\ api_version # "None"
        /\ result.t = "raise" => detect_runs >= 1

C18_Witness ==
    /\ pc = "done" /\ last.t = "resp" /\ last.status = 404 /\ last.header = "v9"
    /\ result.t = "raise" /\ result.kind = "ResourceNotFound"
    /\ api_version = "v9"

\* C19: a client whose detected version looks older than v10, whether it was
\* read from the version header or inferred from the body, has emitted the
\* warning, and no client emits it more than once.
LooksOlder(version) == version \in {"v9", "v9-or-earlier"}

C19_WarnsWhenOlder ==
    /\ LooksOlder(api_version) => warnings = 1
    /\ warnings <= 1

\* C20: for every response, whatever its header and body, the call ends as
\* the status check and the return alone make it end: detection neither
\* raises in its place nor changes its result.
C20_DetectionLeavesOutcome ==
    (pc = "done" /\ last.t = "resp") => result = HandleResponse(last)

C20_Witness ==
    /\ pc = "done" /\ last.t = "resp" /\ last.header = "" /\ last.body = "<html>"
    /\ last.status = 404 /\ api_version = "unknown" /\ warnings = 1
    /\ result.t = "raise" /\ result.kind = "ResourceNotFound"

\* ------------------------------------------------------- facade claims
\* the environment a request body holds, and the variables in it
SentValues(call) == call.cmd.d[1].environment.values
FetchedValues(call) == call.fetched[1].environment.values
DictKeys(values) == {values.items[i][1] : i \in 1..Len(values.items)}

\* C21: every request carries the API-key header, and carries
\* Content-Type: application/json whenever a JSON body is sent.
C21_RequestHeaders ==
    \A c \in Threads :
        fc[c].pc # "idle" =>
            LET cmd == fc[c].cmd IN
            /\ \E i \in 1..Len(cmd.H) :
                  cmd.H[i] = Header("X-API-Key", config.api_key)
            /\ cmd.d # <<>> =>
                  \E i \in 1..Len(cmd.H) :
                      cmd.H[i] = Header("Content-Type", <<"application/json">>)

C21_Witness ==
    /\ fc["A"].pc = "request"
    /\ MethodOf(fc["A"].cmd) = "PUT"
    /\ fc["A"].cmd.d # <<>>
    /\ fc["A"].cmd.H[1].value = <<"P", "M", "A", "K", "-", "7">>

\* C22: no operation of the client (construction, a request, a retry,
\* version detection, a facade method) changes the API key, workspace id,
\* timeout, max-retry count or rate-limit delay of its configuration.
C22_ConfigurationImmutable ==
    [][/\ config'.api_key = config.api_key
       /\ config'.workspace_id = config.workspace_id
       /\ config'.timeout = config.timeout
       /\ config'.max_retries = config.max_retries
       /\ config'.rate_limit_delay = config.rate_limit_delay]_vars

C22_Witness ==
    /\ config = PostmanConfig(<<"P", "M", "A", "K", "-", "7">>, 1)
    /\ pc = "idle"
    /\ fc["A"].op = "update_environment" /\ fc["A"].result = "ok"
    /\ fc["A"].attempt = 1
    /\ api_version = "v10+"

\* C23: a POST whose attempt was carried out by the server and ended in a
\* network failure is attempted again while retries are left, with the same
\* command, so what it creates is created once more.
C23_RetryRepeatsSideEffect ==
    [][\A c \in Threads :
          ( /\ fc[c].pc = "request"
            /\ MethodOf(fc[c].cmd) = "POST"
            /\ fc'[c].applied = fc[c].applied + 1
            /\ fc'[c].last.t = "raise"
            /\ fc'[c].last.kind \in {"Network", "Timeout"}
            /\ fc[c].attempt < config.max_retries )
          => /\ fc'[c].pc = "request"
             /\ fc'[c].cmd = fc[c].cmd
             /\ fc'[c].attempt = fc[c].attempt + 1
             /\ remote'.created = Append(remote.created, fc[c].cmd.d[1])]_vars

C23_Witness ==
    /\ fc["A"].op = "create_environment"
    /\ fc["A"].result = "ok"
    /\ fc["A"].log = <<"POST">>
    /\ fc["A"].applied = 2
    /\ Len(remote.created) = 2
    /\ remote.created[1] = remote.created[2]

\* a keyword of the claim occurs in the name, upper and lower case alike
NameHasKeyword(name) ==
    LET same(a, b) == a = b \/ \E n \in 1..26 : UpperCase[n] = a /\ LowerCase[n] = b
        keywords ==
           { <<"k", "e", "y">>, <<"t", "o", "k", "e", "n">>,
             <<"s", "e", "c", "r", "e", "t">>,
             <<"p", "a", "s", "s", "w", "o", "r", "d">>,
             <<"p", "a", "s", "s", "w", "d">>, <<"p", "w", "d">>,
             <<"a", "u", "t", "h">>,
             <<"c", "r", "e", "d", "e", "n", "t", "i", "a", "l">>,
             <<"p", "r", "i", "v", "a", "t", "e">>,
             <<"a", "p", "i", "k", "e", "y">>,
             <<"a", "p", "i", "_", "k", "e", "y">>,
             <<"b", "e", "a", "r", "e", "r">>,
             <<"a", "u", "t", "h", "o", "r", "i", "z", "a", "t", "i", "o", "n">> }
    IN \E kw \in keywords :
          \E i \in 1..(Len(name) - Len(kw) + 1) :
             \A j \in 1..Len(kw) : same(name[i + j - 1], kw[j])

\* the names of the model that hold a keyword of the claim
NamesWithKeyword == {name \in VarNames : NameHasKeyword(name)}

\* the claim's examples: api_key and bearer_token are secret, base_url and
\* timeout are not
ExamplesOfDetection ==
    /\ detect_secret_type(api_key_name) = "secret"
    /\ detect_secret_type(bearer_token_name) = "secret"
    /\ detect_secret_type(base_url_name) = "default"
    /\ detect_secret_type(timeout_name) = "default"

\* C24: create_environment with a dict sends each variable with type
\* 'secret' if and only if its lower-cased name contains a sensitive keyword,
\* else 'default'; api_key and bearer_token are secret, base_url and timeout
\* are not.
C24_SecretIffKeyword ==
    /\ \A c \in Threads :
          ( /\ fc[c].op = "create_environment"
            /\ fc[c].values.kind = "dict" )
          => LET items == fc[c].values.items
                 sent == SentValues(fc[c])
             IN /\ Len(sent) = Len(items)
                /\ \A i \in 1..Len(items) :
                      /\ sent[i].key = items[i][1]
                      /\ sent[i].type =
                            IF items[i][1] \in NamesWithKeyword THEN "secret"
                            ELSE "default"
    /\ ExamplesOfDetection

C24_Witness ==
    /\ fc["A"].op = "create_environment"
    /\ fc["A"].values.kind = "dict"
    /\ fc["A"].result = "ok"
    /\ Len(SentValues(fc["A"])) = 2
    /\ SentValues(fc["A"])[1] = Variable(DB_PWD_name, "30", "secret", "True")
    /\ SentValues(fc["A"])[2] = Variable(base_url_name, "new", "default", "True")
    /\ remote.created = <<fc["A"].cmd.d[1]>>

\* C25: update_environment with a dict: every variable that is 'secret' in
\* the fetched environment is 'secret' in the environment that is PUT.
C25_UpdateKeepsSecrets ==
    \A c \in Threads :
        ( /\ fc[c].op = "update_environment"
          /\ fc[c].values.kind = "dict"
          /\ MethodOf(fc[c].cmd) = "PUT" )
        => \A i \in 1..Len(FetchedValues(fc[c])) :
              FetchedValues(fc[c])[i].type = "secret" =>
                 \E j \in 1..Len(SentValues(fc[c])) :
                    /\ SentValues(fc[c])[j].key = FetchedValues(fc[c])[i].key
                    /\ SentValues(fc[c])[j].type = "secret"

C27_PartialUpdate ==
    \A c \in Threads :
        ( /\ fc[c].op = "update_environment"
          /\ fc[c].values.kind = "dict"
          /\ MethodOf(fc[c].cmd) = "PUT" )
        => LET fetched == FetchedValues(fc[c])
               sent == SentValues(fc[c])
               items == fc[c].values.items
               has(list, k) == \E i \in 1..Len(list) : list[i].key = k
           IN /\ \A i \in 1..Len(fetched) :
                    fetched[i].key \notin DictKeys(fc[c].values) =>
                       \E j \in 1..Len(sent) : sent[j] = fetched[i]
              /\ \A n \in 1..Len(items) :
                    /\ has(sent, items[n][1])
                    /\ \A j \in 1..Len(sent) :
                          sent[j].key = items[n][1] => sent[j].value = items[n][2].text
                    /\ ~has(fetched, items[n][1]) =>
                          /\ Cardinality({j \in 1..Len(sent) :
                                            sent[j].key = items[n][1]}) = 1
                          /\ \A j \in 1..Len(sent) :
                                sent[j].key = items[n][1] => sent[j].enabled = "True"
              /\ fc[c].cmd.d[1].environment.name =
                    IF fc[c].name # <<>> THEN fc[c].name
                    ELSE fc[c].fetched[1].environment.name

\* C28: what _make_request raises from its transport and retry phase is a
\* Network or a Timeout error: either of them leaving the retry handler is
\* raised as it is, anything else leaving it is raised as a Network error
\* that carries the original; an error of another kind of the taxonomy comes
\* from the status check on a response the retry handler handed back.
C28_TransportRaisesNetworkOrTimeout ==
    /\ (pc = "done" /\ last.t = "raise") =>
          /\ result.t = "raise"
          /\ result.kind \in {"Network", "Timeout"}
          /\ result.kind = last.kind
          /\ result.msg = last.msg
    /\ ( /\ pc = "done" /\ result.t = "raise"
         /\ result.kind \in ErrorKinds \ {"Network", "Timeout"} ) =>
          /\ last.t = "resp"
          /\ last.status >= 400
          /\ result.kind = Classify(last.status)
    /\ (pc = "done" /\ result.t = "raise" /\ last.t = "resp") =>
          result.kind \notin {"Network", "Timeout"}
    /\ \A k \in {"ValueError", "RuntimeError"} :
          LET r == CatchRetryError(Raised(k, <<k, "">>, NoProc)) IN
          r.t = "raise" /\ r.kind = "Network" /\ r.msg[2] = k

C28_Witness ==
    /\ pc = "done" /\ last.t = "raise" /\ last.kind = "Timeout"
    /\ made = 2
    /\ result.t = "raise" /\ result.kind = "Timeout"

\* C29: duplicate_collection and duplicate_environment issue the GET of the
\* original before the POST of the copy, and when the GET fails they issue no
\* POST and nothing is created.
C29_ReadThenCreate ==
    \A c \in Threads :
        fc[c].op \in {"duplicate_collection", "duplicate_environment"} =>
            /\ fc[c].log \in {<<"GET">>, <<"GET", "POST">>}
            /\ fc[c].log = <<"GET", "POST">> => fc[c].fetched # <<>>
            /\ fc[c].fetched = <<>> =>
                  /\ fc[c].applied = 0
                  /\ remote.created = <<>>
                  /\ fc[c].pc = "done" => fc[c].result \in ErrorKinds
            /\ Len(remote.created) = fc[c].applied

C29_Witness ==
    /\ fc["A"].op = "duplicate_collection"
    /\ fc["A"].pc = "done"
    /\ fc["A"].result = "Network"
    /\ fc["A"].attempt = 1
    /\ fc["A"].log = <<"GET">>
    /\ remote.created = <<>>

\* C30: when a caller's PUT is the last to reach the server and its GET was
\* answered before another caller's PUT, the environment on the server is the
\* one the caller computed from what it fetched, and what the other caller
\* changed is as it was in that fetch: the other caller's update is lost.
C30_LostUpdate ==
    \A w \in Threads, d \in Threads :
        ( /\ w # d
          /\ remote.writer = w
          /\ fc[d].applied > 0
          /\ fc[w].seen < fc[d].first_put )
        => /\ remote.env = fc[w].cmd.d[1].environment
           /\ remote.env.name = fc[w].fetched[1].environment.name
           /\ \A k \in DictKeys(fc[d].values) \ DictKeys(fc[w].values) :
                 SelectSeq(remote.env.values, LAMBDA v : v.key = k)
                    = SelectSeq(FetchedValues(fc[w]), LAMBDA v : v.key = k)

C30_Witness ==
    /\ fc["A"].result = "ok" /\ fc["B"].result = "ok"
    /\ remote.writer = "B"
    /\ fc["B"].seen = 0 /\ fc["A"].first_put = 1
    /\ DictKeys(fc["A"].values) = {DB_PWD_name}
    /\ DictKeys(fc["B"].values) = {api_key_name}
    /\ \A i \in 1..Len(remote.env.values) : remote.env.values[i].key # DB_PWD_name
====
